---- MODULE Spec2Model ----
(***************************************************************************)
(* A model of the bolt-ride-events pipeline:                               *)
(*   producer/app.py   (Ingestor)  bucket object -> csv rows -> log        *)
(*   consumer/app.py   (Merger)    log records -> merge -> keyed store     *)
(*   aggregator/app.py (Aggregator) keyed store -> groups -> bucket        *)
(* Python values are tagged records, dicts are functions from key strings, *)
(* JSON text is a structured value distinct from the dict it encodes.      *)
(***************************************************************************)
EXTENDS Integers, Sequences, FiniteSets, TLC

\* ------------------------------------------------------------------ bounds
\* Largest number of records in one Merger batch (sequential specification).
MaxBatch == 3
\* Largest number of records in one Merger batch when two invocations race.
MaxRaceBatch == 1

\* ----------------------------------------------------------- Python values
Str(s) == [t |-> "str", s |-> s]
PyNone == [t |-> "None"]
PyList(l) == [t |-> "list", l |-> l]
\* The dict key None (csv.DictReader's restkey); every other key is a string.
NoneKey == "<None>"
EmptyDict == [k \in {} |-> PyNone]

\* A dict whose order of insertion matters: its keys in the order they were
\* inserted, and the value at each key.
PyDict(keys, at) == [keys |-> keys, at |-> at]

\* ------------------------------------------------------------- JSON text
JString(s) == [j |-> "string", s |-> s]
JNull == [j |-> "null"]
JArray(l) == [j |-> "array", l |-> l]
JObject(m) == [j |-> "object", m |-> m]
JInvalid == [j |-> "invalid"]

\* json.dumps: a key that is None is written as the name "null", a value
\* None as null, a list of strings as an array.
DumpKey(k) == IF k = NoneKey THEN "null" ELSE k
DumpValue(v) ==
  CASE v.t = "str" -> JString(v.s)
    [] v.t = "None" -> JNull
    [] v.t = "list" -> JArray(v.l)

\* A serialisation that leaves out the members whose value is None.
json_dumps_SkipNone(d) ==
  LET ks == SelectSeq(d.keys, LAMBDA k : d.at[k].t # "None")
  IN  JObject([i \in 1..Len(ks) |->
                 [name |-> DumpKey(ks[i]), value |-> DumpValue(d.at[ks[i]])]])

\* json.dumps of a dict: one member per key, in the dict's order of
\* insertion.
json_dumps(d) ==
  JObject([i \in 1..Len(d.keys) |->
             [name |-> DumpKey(d.keys[i]),
              value |-> DumpValue(d.at[d.keys[i]])]])

\* json.loads raises on text that is not JSON.
JsonValid(text) == text.j # "invalid"

LoadValue(v) ==
  CASE v.j = "string" -> Str(v.s)
    [] v.j = "null" -> PyNone
    [] v.j = "array" -> PyList(v.l)

\* json.loads of an object: a name that occurs twice keeps its last value.
LoadObject(m) ==
  LET names == {m[i].name : i \in 1..Len(m)}
      last(nm) == CHOOSE i \in 1..Len(m) :
                    /\ m[i].name = nm
                    /\ \A j \in 1..Len(m) : m[j].name = nm => j <= i
  IN  [nm \in names |-> LoadValue(m[last(nm)].value)]

json_loads(text) ==
  IF text.j = "object" THEN [py |-> "dict", d |-> LoadObject(text.m)]
  ELSE [py |-> "other", d |-> EmptyDict]

\* ------------------------------------------------- bytes and base64 data
\* str.encode / bytes.decode('utf-8'), base64 of the Kinesis event.
Utf8Encode(text) == [utf8 |-> TRUE, text |-> text]
BadBytes == [utf8 |-> FALSE, text |-> JInvalid]
B64Encode(bytes) == [b64 |-> TRUE, bytes |-> bytes]
BadB64 == [b64 |-> FALSE, bytes |-> BadBytes]

\* The event record Kinesis delivers for a put_record(Data=text).
KinesisRecord(text) == [kinesis |-> [data |-> B64Encode(Utf8Encode(text))]]

\* ------------------------------------------------------------- Merger
\* consumer/app.py.  Procs are the Merger invocations that may be in flight.
Procs == {"m1", "m2"}

VARIABLES
  table,     \* the DynamoDB table: key -> item, for the keys that hold one
  pc,        \* per invocation: "idle", "loop", "put", "returned"
  nrec,      \* per invocation: len(event['Records'])
  idx,       \* per invocation: position of the for loop, 1-based
  cur,       \* per invocation: trip_id, payload, existing_item between
             \* get_item and put_item
  result,    \* per invocation: the handler's return value
  outcome,   \* per invocation: how the last iteration ended
  noTrip,    \* per invocation: a record without trip_id was met
  attempts,  \* per invocation: iterations started
  nGet,      \* per invocation: get_item calls issued
  nPut,      \* per invocation: put_item calls issued
  sent,      \* key -> field -> value of the latest completed merge sending it
  ref,       \* the table of a run of the completed merges alone
  ver,       \* key -> number of put_item calls that succeeded on it
  missed     \* per invocation: payloads others wrote to its key since its read

mvars == <<table, pc, nrec, idx, cur, result, outcome, noTrip, attempts, nGet,
           nPut, sent, ref, ver, missed>>

\* The Ingestor's state (producer/app.py).
VARIABLES
  stream_name,  \* os.environ.get('KINESIS_STREAM_NAME')
  event,        \* event['Records']: the object keys of the notifications
  ipc,          \* "idle", "files", "rows", "returned"
  fi,           \* position of the loop over the notifications, 1-based
  rows,         \* what csv_reader yields for the file at hand
  ri,           \* position of the loop over the rows, 1-based
  row_count,    \* row_count of the file at hand
  log,          \* the stream: the records put_record appended, in order
  logRows,      \* for each record of the stream, the row it was made from
  iresult,      \* the handler's return value
  nFetch,       \* get_object calls issued
  nAppend,      \* put_record calls issued
  tried,        \* <<file, row>> positions whose put_record was issued
  failedAt,     \* <<file, row>> positions whose put_record raised
  fetched,      \* positions in the batch whose get_object was issued
  fileErr       \* positions in the batch whose fetch or parsing raised

ivars == <<stream_name, event, ipc, fi, rows, ri, row_count, log, logRows,
           iresult, nFetch, nAppend, tried, failedAt, fetched, fileErr>>

\* The Aggregator's state (aggregator/app.py).
VARIABLES
  store,        \* the keyed store as the scan walks it: a sequence of records
  bucket,       \* the output bucket: object key -> body
  apc,          \* "idle", "scan", "scanned", "write", "returned", "raised"
  items,        \* scan_all_items: items
  lek,          \* scan_all_items: last_evaluated_key (0 stands for None)
  startKey,     \* scan_all_items: the ExclusiveStartKey of the latest
                \* scan call (0: none was passed)
  nScan,        \* scan_all_items: scan calls issued
  nToken,       \* scan_all_items: responses that carried a LastEvaluatedKey
  kpis,         \* the rows of the kpis frame
  ki,           \* position of the loop over kpis, 1-based
  puts,         \* the put_object calls of the invocation: <<Key, Body>>
  bucket0,      \* the bucket when the invocation began
  prevOk        \* the previous invocation returned normally

avars == <<store, bucket, apc, items, lek, startKey, nScan, nToken, kpis, ki,
           puts, bucket0, prevOk>>

TripIds == {"t1", "t2"}
PayloadFields == {"trip_id", "id", "a", "b"}
FieldValues(f) ==
  CASE f = "trip_id" -> {Str(k) : k \in TripIds}
    [] f = "id" -> {Str(k) : k \in TripIds}
    [] f = "a" -> {Str("x"), Str("y")}
    [] f = "b" -> {Str("x")}
AllValues == UNION {FieldValues(f) : f \in PayloadFields}

\* The payload mappings the Merger is fed.
PayloadDicts ==
  UNION {{d \in [D -> AllValues] : \A f \in D : d[f] \in FieldValues(f)} :
           D \in SUBSET PayloadFields}

\* The order in which the texts handed to the Merger list their members.
KeyOrder == <<"trip_id", "id", "a", "b">>
\* A payload mapping as a dict built in that order.
InKeyOrder(d) == PyDict(SelectSeq(KeyOrder, LAMBDA k : k \in DOMAIN d), d)

\* Records of a Kinesis batch: every payload mapping, and the ways a record
\* can be undecodable (bad base64, bad UTF-8, not JSON, JSON but no mapping).
MergerInputs ==
  {KinesisRecord(json_dumps(InKeyOrder(d))) : d \in PayloadDicts}
    \cup {[kinesis |-> [data |-> BadB64]],
          [kinesis |-> [data |-> B64Encode(BadBytes)]],
          KinesisRecord(JInvalid),
          KinesisRecord(JArray(<<"t1">>))}

\* The same, with fewer mappings, for two invocations in flight at once.
RaceDicts ==
  {e \in PayloadDicts :
     /\ "trip_id" \in DOMAIN e
     /\ "id" \in DOMAIN e => e["id"] = Str("t2") /\ e["trip_id"] = Str("t1")
     /\ "a" \in DOMAIN e => e["a"] = Str("x")}
RaceInputs ==
  {KinesisRecord(json_dumps(InKeyOrder(d))) : d \in RaceDicts}
    \cup {KinesisRecord(JInvalid)}

NoCur == [trip_id |-> PyNone, payload |-> EmptyDict,
          existing_item |-> EmptyDict, readVer |-> [k \in {} |-> 0]]

\* Lines 41-45: base64.b64decode(...).decode('utf-8'), json.loads.
Decodes(r) ==
  /\ r.kinesis.data.b64
  /\ r.kinesis.data.bytes.utf8
  /\ JsonValid(r.kinesis.data.bytes.text)
Payload(r) == json_loads(r.kinesis.data.bytes.text)

\* Line 48: payload['trip_id'] raises unless payload is a mapping holding it.
HasTripId(r) ==
  /\ Decodes(r)
  /\ Payload(r).py = "dict"
  /\ "trip_id" \in DOMAIN Payload(r).d

\* Line 51: table.get_item(Key={'id': trip_id}).get('Item', {}).
KeyValid(v) == v.t = "str"
get_item(tbl, trip_id) ==
  IF trip_id.s \in DOMAIN tbl THEN tbl[trip_id.s] ELSE EmptyDict

\* Variants of the merge, as slips of lines 55-56 would make it: the existing
\* record taking precedence, the key not forced, the payload replacing the
\* record.
MergeItem_ExistingWins(existing_item, payload, trip_id) ==
  LET merged_item ==
        [f \in DOMAIN existing_item \cup DOMAIN payload |->
           IF f \in DOMAIN existing_item THEN existing_item[f] ELSE payload[f]]
  IN  [f \in DOMAIN merged_item \cup {"id"} |->
         IF f = "id" THEN trip_id ELSE merged_item[f]]

MergeItem_KeyNotForced(existing_item, payload, trip_id) ==
  LET merged_item ==
        [f \in DOMAIN existing_item \cup DOMAIN payload |->
           IF f \in DOMAIN payload THEN payload[f] ELSE existing_item[f]]
  IN  [f \in DOMAIN merged_item \cup {"id"} |->
         IF f \in DOMAIN merged_item THEN merged_item[f] ELSE trip_id]

MergeItem_PayloadOnly(existing_item, payload, trip_id) ==
  [f \in DOMAIN payload \cup {"id"} |->
     IF f = "id" THEN trip_id ELSE payload[f]]

\* Lines 55-56: {**existing_item, **payload}, then merged_item['id'] = trip_id.
MergeItem(existing_item, payload, trip_id) ==
  LET merged_item ==
        [f \in DOMAIN existing_item \cup DOMAIN payload |->
           IF f \in DOMAIN payload THEN payload[f] ELSE existing_item[f]]
  IN  [f \in DOMAIN merged_item \cup {"id"} |->
         IF f = "id" THEN trip_id ELSE merged_item[f]]

\* Line 59: table.put_item(Item=merged_item); the item needs its key 'id'.
PutValid(item) == "id" \in DOMAIN item /\ KeyValid(item["id"])

\* A put that writes only where no record exists yet (a conditional put).
put_item_IfAbsent(tbl, item) ==
  IF item["id"].s \in DOMAIN tbl THEN tbl
  ELSE [k \in DOMAIN tbl \cup {item["id"].s} |->
          IF k = item["id"].s THEN item ELSE tbl[k]]

put_item(tbl, item) ==
  [k \in DOMAIN tbl \cup {item["id"].s} |->
     IF k = item["id"].s THEN item ELSE tbl[k]]

\* An except clause that gives up on the rest of the batch.
AfterRecordError_Abort(i, len) == len + 1

\* Lines 62-64: the except clause logs; the for loop goes on with the next
\* record.
AfterRecordError(i, len) == i + 1

MergerInit ==
  /\ table = [k \in {} |-> EmptyDict]
  /\ pc = [p \in Procs |-> "idle"]
  /\ nrec = [p \in Procs |-> 0]
  /\ idx = [p \in Procs |-> 1]
  /\ cur = [p \in Procs |-> NoCur]
  /\ result = [p \in Procs |-> [status |-> "none"]]
  /\ outcome = [p \in Procs |-> "none"]
  /\ noTrip = [p \in Procs |-> FALSE]
  /\ attempts = [p \in Procs |-> 0]
  /\ nGet = [p \in Procs |-> 0]
  /\ nPut = [p \in Procs |-> 0]
  /\ sent = [k \in {} |-> EmptyDict]
  /\ ref = [k \in {} |-> EmptyDict]
  /\ ver = [k \in TripIds |-> 0]
  /\ missed = [p \in Procs |-> {}]

\* Line 36-38: the handler is invoked with a batch of len records.
MInvoke(p, len) ==
  /\ pc[p] = "idle"
  /\ pc' = [pc EXCEPT ![p] = "loop"]
  /\ nrec' = [nrec EXCEPT ![p] = len]
  /\ idx' = [idx EXCEPT ![p] = 1]
  /\ UNCHANGED <<table, cur, result, outcome, noTrip, attempts, nGet, nPut,
                 sent, ref, ver, missed>>
  /\ UNCHANGED <<ivars, avars>>

\* Lines 41-48 raise, lines 62-64 catch: the record is skipped.
MSkip(p, r) ==
  /\ pc[p] = "loop"
  /\ idx[p] <= nrec[p]
  /\ ~HasTripId(r)
  /\ attempts' = [attempts EXCEPT ![p] = @ + 1]
  /\ outcome' = [outcome EXCEPT ![p] =
                   IF Decodes(r) THEN "no_trip_id" ELSE "decode_failed"]
  /\ noTrip' = [noTrip EXCEPT ![p] = @ \/ Decodes(r)]
  /\ idx' = [idx EXCEPT ![p] = AfterRecordError(idx[p], nrec[p])]
  /\ UNCHANGED <<table, pc, nrec, cur, result, nGet, nPut, sent, ref, ver,
                 missed>>
  /\ UNCHANGED <<ivars, avars>>

\* Lines 41-51: the record decodes and get_item answers.
MGet(p, r) ==
  /\ pc[p] = "loop"
  /\ idx[p] <= nrec[p]
  /\ HasTripId(r)
  /\ KeyValid(Payload(r).d["trip_id"])
  /\ attempts' = [attempts EXCEPT ![p] = @ + 1]
  /\ nGet' = [nGet EXCEPT ![p] = @ + 1]
  /\ cur' = [cur EXCEPT ![p] =
               [trip_id |-> Payload(r).d["trip_id"],
                payload |-> Payload(r).d,
                existing_item |-> get_item(table, Payload(r).d["trip_id"]),
                readVer |-> ver]]
  /\ missed' = [missed EXCEPT ![p] = {}]
  /\ outcome' = [outcome EXCEPT ![p] = "read"]
  /\ pc' = [pc EXCEPT ![p] = "put"]
  /\ UNCHANGED <<table, nrec, idx, result, noTrip, nPut, sent, ref, ver>>
  /\ UNCHANGED <<ivars, avars>>

\* Line 51 raises (the store refuses or cannot be reached), lines 62-64 catch.
MGetFail(p, r) ==
  /\ pc[p] = "loop"
  /\ idx[p] <= nrec[p]
  /\ HasTripId(r)
  /\ attempts' = [attempts EXCEPT ![p] = @ + 1]
  /\ nGet' = [nGet EXCEPT ![p] = @ + 1]
  /\ outcome' = [outcome EXCEPT ![p] = "get_failed"]
  /\ idx' = [idx EXCEPT ![p] = AfterRecordError(idx[p], nrec[p])]
  /\ UNCHANGED <<table, pc, nrec, cur, result, noTrip, nPut, sent, ref, ver,
                 missed>>
  /\ UNCHANGED <<ivars, avars>>

\* Lines 55-60: merge and put_item, which overwrites unconditionally.
MPut(p) ==
  LET item == MergeItem(cur[p].existing_item, cur[p].payload, cur[p].trip_id)
      key == item["id"].s
      tid == cur[p].trip_id.s
  IN  /\ pc[p] = "put"
      /\ PutValid(item)
      /\ table' = put_item(table, item)
      /\ nPut' = [nPut EXCEPT ![p] = @ + 1]
      /\ outcome' = [outcome EXCEPT ![p] = "merged"]
      /\ idx' = [idx EXCEPT ![p] = @ + 1]
      /\ pc' = [pc EXCEPT ![p] = "loop"]
      /\ sent' = [k \in DOMAIN sent \cup {tid} |->
                    IF k # tid THEN sent[k]
                    ELSE LET old == IF tid \in DOMAIN sent THEN sent[tid]
                                    ELSE EmptyDict
                         IN  [f \in DOMAIN old \cup DOMAIN cur[p].payload |->
                                IF f \in DOMAIN cur[p].payload
                                THEN cur[p].payload[f] ELSE old[f]]]
      /\ ref' = put_item(ref, MergeItem(get_item(ref, cur[p].trip_id),
                                        cur[p].payload, cur[p].trip_id))
      /\ ver' = [ver EXCEPT ![key] = @ + 1]
      /\ missed' = [q \in Procs |->
                      IF q = p THEN {}
                      ELSE IF pc[q] = "put" /\ cur[q].trip_id.s = key
                      THEN missed[q] \cup {cur[p].payload}
                      ELSE missed[q]]
      /\ cur' = [cur EXCEPT ![p] = NoCur]
      /\ UNCHANGED <<nrec, result, noTrip, attempts, nGet>>
      /\ UNCHANGED <<ivars, avars>>

\* Line 59 raises, lines 62-64 catch: nothing is written.
MPutFail(p) ==
  /\ pc[p] = "put"
  /\ nPut' = [nPut EXCEPT ![p] = @ + 1]
  /\ outcome' = [outcome EXCEPT ![p] = "put_failed"]
  /\ idx' = [idx EXCEPT ![p] = AfterRecordError(idx[p], nrec[p])]
  /\ pc' = [pc EXCEPT ![p] = "loop"]
  /\ cur' = [cur EXCEPT ![p] = NoCur]
  /\ missed' = [missed EXCEPT ![p] = {}]
  /\ UNCHANGED <<table, nrec, result, noTrip, attempts, nGet, sent, ref,
                 ver>>
  /\ UNCHANGED <<ivars, avars>>

\* Line 66: the loop is over, the handler returns {"status": "ok"}.
MReturn(p) ==
  /\ pc[p] = "loop"
  /\ idx[p] > nrec[p]
  /\ pc' = [pc EXCEPT ![p] = "returned"]
  /\ result' = [result EXCEPT ![p] = [status |-> "ok"]]
  /\ UNCHANGED <<table, nrec, idx, cur, outcome, noTrip, attempts, nGet,
                 nPut, sent, ref, ver, missed>>
  /\ UNCHANGED <<ivars, avars>>

\* ------------------------------------------------------------ Ingestor
\* producer/app.py.
\* Largest number of notifications in one Ingestor batch.
MaxFiles == 2

StreamName == "trips-stream"
\* The environment: the variable unset, set to nothing, or set.
StreamSettings == {PyNone, Str(""), Str(StreamName)}

\* A configured name that is tested for presence only, not for emptiness.
StreamConfigured_NotNone(name) == name.t = "str"

\* Line 57: `if not stream_name`.
StreamConfigured(name) == name.t = "str" /\ name.s # ""

\* A line of a csv file, as csv.reader reads it: its cells, or a line the
\* reader raises csv.Error on.
Line(cells) == [bad |-> FALSE, cells |-> cells]
BadLine == [bad |-> TRUE, cells |-> <<>>]

\* The bucket: object key -> content.  An absent key makes get_object raise,
\* content that is not UTF-8 makes decode raise.
CsvObject(lines) == [utf8 |-> TRUE, lines |-> lines]
BinaryObject == [utf8 |-> FALSE, lines |-> <<>>]
Bucket ==
  [k \in {"trips.csv", "ragged.csv", "late.csv", "noid.csv", "ids.csv",
          "empty.csv", "broken.csv", "image.bin"} |->
     CASE k = "trips.csv" ->
            CsvObject(<<Line(<<"trip_id", "a">>), Line(<<"t1", "x">>),
                        Line(<<"t2", "y">>)>>)
       [] k = "ragged.csv" ->
            CsvObject(<<Line(<<"trip_id", "a">>), Line(<<"t1", "x", "z">>),
                        Line(<<>>), Line(<<"t2">>)>>)
       [] k = "late.csv" ->
            CsvObject(<<Line(<<"a", "trip_id">>), Line(<<"x">>),
                        Line(<<"y", "t2">>)>>)
       [] k = "noid.csv" ->
            CsvObject(<<Line(<<"a", "b">>), Line(<<"x", "x">>)>>)
       [] k = "ids.csv" ->
            CsvObject(<<Line(<<"trip_id", "id">>), Line(<<"t1", "t2">>)>>)
       [] k = "empty.csv" -> CsvObject(<<>>)
       [] k = "broken.csv" ->
            CsvObject(<<Line(<<"trip_id", "a">>), Line(<<"t1", "x">>),
                        BadLine, Line(<<"t2", "x">>)>>)
       [] k = "image.bin" -> BinaryObject]
\* The keys a notification may name; "gone.csv" is not in the bucket.
ObjectKeys == DOMAIN Bucket \cup {"gone.csv"}

\* Line 71-72: get_object(...)['Body'].read().decode('utf-8') answers.
Fetchable(key) == key \in DOMAIN Bucket /\ Bucket[key].utf8

\* The column names in the order the reader inserts them into a row: the
\* header's order, a name that occurs twice at its first place.
RECURSIVE ColumnKeys(_)
ColumnKeys(fieldnames) ==
  IF fieldnames = <<>> THEN <<>>
  ELSE LET front == ColumnKeys(SubSeq(fieldnames, 1, Len(fieldnames) - 1))
           name == fieldnames[Len(fieldnames)]
       IN  IF \E i \in 1..Len(front) : front[i] = name THEN front
           ELSE Append(front, name)

\* csv.DictReader, one row: dict(zip(fieldnames, row)); surplus cells go
\* under the key None as a list, inserted after the columns; missing cells
\* are None.
DictRow(fieldnames, cells) ==
  LET lf == Len(fieldnames)
      lr == Len(cells)
      last(k) == CHOOSE i \in 1..lf :
                   /\ fieldnames[i] = k
                   /\ \A j \in 1..lf : fieldnames[j] = k => j <= i
  IN  PyDict(ColumnKeys(fieldnames)
               \o (IF lf < lr THEN <<NoneKey>> ELSE <<>>),
             [k \in {fieldnames[i] : i \in 1..lf}
                    \cup (IF lf < lr THEN {NoneKey} ELSE {}) |->
                IF k = NoneKey /\ lf < lr
                THEN PyList(SubSeq(cells, lf + 1, lr))
                ELSE IF last(k) <= lr THEN Str(cells[last(k)])
                ELSE PyNone])

\* What the reader yields for one line after the header.
RowOf(fieldnames, line) ==
  IF line.bad THEN [err |-> TRUE, row |-> PyDict(<<>>, EmptyDict)]
  ELSE [err |-> FALSE, row |-> DictRow(fieldnames, line.cells)]

\* Line 76-78: csv.DictReader(StringIO(content)): the first line gives the
\* field names, blank lines are passed over, every other line is a row.
DictReader(lines) ==
  IF lines = <<>> THEN <<>>
  ELSE IF lines[1].bad THEN <<[err |-> TRUE, row |-> PyDict(<<>>, EmptyDict)]>>
  ELSE LET body == SelectSeq(Tail(lines),
                             LAMBDA l : l.bad \/ l.cells # <<>>)
       IN  [i \in 1..Len(body) |-> RowOf(lines[1].cells, body[i])]

\* A partition key read from the wrong column.
PartitionKeyOf_WrongField(row) ==
  IF "id" \in DOMAIN row.at THEN row.at["id"] ELSE Str("unknown")

\* Line 80: row.get('trip_id', 'unknown').
PartitionKeyOf(row) ==
  IF "trip_id" \in DOMAIN row.at THEN row.at["trip_id"] ELSE Str("unknown")

\* Lines 83-87: the record put_record appends for a row.
LogRecord(name, row) ==
  [StreamName |-> name.s, Data |-> json_dumps(row),
   PartitionKey |-> PartitionKeyOf(row)]

\* Lines 92-93: the except clause encloses the whole file; an exception
\* raised for a row leaves the loop over the rows.
AfterAppendError(r, len) == len + 1

\* The batches of notifications: up to MaxFiles object keys.
Events == UNION {[1..n -> ObjectKeys] : n \in 0..MaxFiles}

\* An except clause around the loop over the notifications: the batch ends.
AfterFileError_EndBatch(f, len) == len + 1

\* Lines 63-93: the try is inside the loop over the notifications; after the
\* except clause the next notification is taken up.
AfterFileError(f, len) == f + 1

IngestorInit ==
  /\ stream_name = PyNone
  /\ event = <<>>
  /\ ipc = "idle"
  /\ fi = 1
  /\ rows = <<>>
  /\ ri = 1
  /\ row_count = 0
  /\ log = <<>>
  /\ logRows = <<>>
  /\ iresult = [status |-> "none"]
  /\ nFetch = 0
  /\ nAppend = 0
  /\ tried = {}
  /\ failedAt = {}
  /\ fetched = {}
  /\ fileErr = {}

\* Lines 54-61: the handler is invoked on a batch of notifications and the
\* stream name is configured.
IInvoke ==
  /\ ipc = "idle"
  /\ \E name \in StreamSettings, ev \in Events :
       /\ StreamConfigured(name)
       /\ stream_name' = name
       /\ event' = ev
  /\ ipc' = "files"
  /\ fi' = 1
  /\ UNCHANGED <<rows, ri, row_count, log, logRows, iresult, nFetch, nAppend,
                 tried, failedAt, fetched, fileErr>>
  /\ UNCHANGED <<mvars, avars>>

\* Lines 54-59: the stream name is not configured; the handler returns at
\* once.
IInvokeUnconfigured ==
  /\ ipc = "idle"
  /\ \E name \in StreamSettings, ev \in Events :
       /\ ~StreamConfigured(name)
       /\ stream_name' = name
       /\ event' = ev
  /\ ipc' = "returned"
  /\ iresult' = [status |-> "error", message |-> "Stream name not configured"]
  /\ UNCHANGED <<fi, rows, ri, row_count, log, logRows, nFetch, nAppend,
                 tried, failedAt, fetched, fileErr>>
  /\ UNCHANGED <<mvars, avars>>

\* Lines 63-77: the next notification; its object is fetched and decoded.
IFetch ==
  /\ ipc = "files"
  /\ fi <= Len(event)
  /\ Fetchable(event[fi])
  /\ nFetch' = nFetch + 1
  /\ fetched' = fetched \cup {fi}
  /\ rows' = DictReader(Bucket[event[fi]].lines)
  /\ ri' = 1
  /\ row_count' = 0
  /\ ipc' = "rows"
  /\ UNCHANGED <<stream_name, event, fi, log, logRows, iresult, nAppend,
                 tried, failedAt, fileErr>>
  /\ UNCHANGED <<mvars, avars>>

\* Lines 71-72 raise (no such object, the store unreachable, content that is
\* not UTF-8), lines 92-93 catch: the next notification is taken up.
IFetchFail ==
  /\ ipc = "files"
  /\ fi <= Len(event)
  /\ nFetch' = nFetch + 1
  /\ fetched' = fetched \cup {fi}
  /\ fileErr' = fileErr \cup {fi}
  /\ fi' = AfterFileError(fi, Len(event))
  /\ UNCHANGED <<stream_name, event, ipc, rows, ri, row_count, log, logRows,
                 iresult, nAppend, tried, failedAt>>
  /\ UNCHANGED <<mvars, avars>>

\* Lines 78-88: one row is serialised and appended to the stream.
IAppend ==
  /\ ipc = "rows"
  /\ ri <= Len(rows)
  /\ ~rows[ri].err
  /\ row_count' = row_count + 1
  /\ nAppend' = nAppend + 1
  /\ tried' = tried \cup {<<fi, ri>>}
  /\ log' = Append(log, LogRecord(stream_name, rows[ri].row))
  /\ logRows' = Append(logRows, rows[ri].row)
  /\ ri' = ri + 1
  /\ UNCHANGED <<stream_name, event, ipc, fi, rows, iresult, nFetch,
                 failedAt, fetched, fileErr>>
  /\ UNCHANGED <<mvars, avars>>

\* Lines 83-87 raise, lines 92-93 catch.
IAppendFail ==
  /\ ipc = "rows"
  /\ ri <= Len(rows)
  /\ ~rows[ri].err
  /\ row_count' = row_count + 1
  /\ nAppend' = nAppend + 1
  /\ tried' = tried \cup {<<fi, ri>>}
  /\ failedAt' = failedAt \cup {<<fi, ri>>}
  /\ ri' = AfterAppendError(ri, Len(rows))
  /\ UNCHANGED <<stream_name, event, ipc, fi, rows, log, logRows, iresult,
                 nFetch, fetched, fileErr>>
  /\ UNCHANGED <<mvars, avars>>

\* Line 78 raises csv.Error on a line, lines 92-93 catch: the file is left.
IParseFail ==
  /\ ipc = "rows"
  /\ ri <= Len(rows)
  /\ rows[ri].err
  /\ fileErr' = fileErr \cup {fi}
  /\ ri' = Len(rows) + 1
  /\ UNCHANGED <<stream_name, event, ipc, fi, rows, row_count, log, logRows,
                 iresult, nFetch, nAppend, tried, failedAt, fetched>>
  /\ UNCHANGED <<mvars, avars>>

\* Lines 90-93: the loop over the rows is over, by its end or by an
\* exception; the next notification is taken up.
IFileDone ==
  /\ ipc = "rows"
  /\ ri > Len(rows)
  /\ fi' = fi + 1
  /\ ipc' = "files"
  /\ UNCHANGED <<stream_name, event, rows, ri, row_count, log, logRows,
                 iresult, nFetch, nAppend, tried, failedAt, fetched, fileErr>>
  /\ UNCHANGED <<mvars, avars>>

\* Lines 95-96: the batch is over.
IReturn ==
  /\ ipc = "files"
  /\ fi > Len(event)
  /\ ipc' = "returned"
  /\ iresult' = [status |-> "done"]
  /\ UNCHANGED <<stream_name, event, fi, rows, ri, row_count, log, logRows,
                 nFetch, nAppend, tried, failedAt, fetched, fileErr>>
  /\ UNCHANGED <<mvars, avars>>

\* ---------------------------------------------------------- Aggregator
\* aggregator/app.py.
\* Largest number of records in the keyed store.
MaxItems == 2
\* Largest number of records the store evaluates for one scan call.
MaxPage == 2

\* A number the store holds (boto3 hands it over as a Decimal).
Num(n) == [t |-> "num", n |-> n]
\* A float of the frame, as the exact fraction num/den in lowest terms.
Float(num, den) == [t |-> "float", num |-> num, den |-> den]
\* NaN, also the frame's marker of a missing value.
NaN == [t |-> "nan"]
\* NaT, the missing timestamp.
NaT == [t |-> "nat"]
\* A Timestamp: day of April 2025 and minute of the day.
Ts(d, m) == [t |-> "ts", d |-> d, m |-> m]

\* The stored attribute is not there.
Absent == [t |-> "absent"]
\* A record of the store with the attributes that are there.
Item(pickup, fare, estimate) ==
  LET all == [pickup_datetime |-> pickup, fare_amount |-> fare,
              estimated_fare_amount |-> estimate]
  IN  [a \in {b \in DOMAIN all : all[b] # Absent} |-> all[a]]

\* The records a store is made of.
StoreRecords ==
  { Item(Str("2025-04-22T09:00:00"), Str("20"), Num(22)),
    Item(Str("2025-04-22T08:30:00"), Num(10), Num(12)),
    Item(Str("2025-04-22T08:30:00"), Str("25"), Num(22)),
    Item(Str("2025-04-23T08:30:00"), Num(10), Num(12)),
    Item(Str("2025-04-22T08:30:00"), Str("abc"), Num(12)),
    Item(Str("not-a-date"), Num(10), Num(12)),
    Item(Absent, Num(10), Num(12)),
    Item(Str("2025-04-22T08:30:00"), Absent, Num(12)),
    Item(Str("2025-04-22T08:30:00"), Num(10), Absent) }

\* The stores: up to MaxItems records, in the order the scan walks them.
Stores == UNION {[1..n -> StoreRecords] : n \in 0..MaxItems}

\* A filter that asks for fare_amount alone.
FilterExpression_FareOnly == {"fare_amount"}

\* Lines 26-29: Attr('fare_amount').exists() & Attr('estimated_fare_amount')
\* .exists(), as the set of attributes a record must have.
FilterExpression == {"fare_amount", "estimated_fare_amount"}

\* Arguments that never carry the key of the response before.
ScanKwargs_NoStartKey(last_evaluated_key) ==
  [FilterExpression |-> FilterExpression, ExclusiveStartKey |-> 0]

\* Lines 32-36: scan_kwargs; last_evaluated_key 0 stands for None.
ScanKwargs(last_evaluated_key) ==
  [FilterExpression |-> FilterExpression,
   ExclusiveStartKey |-> IF last_evaluated_key # 0 THEN last_evaluated_key
                         ELSE 0]

\* table.scan(**scan_kwargs): the store evaluates the n records after the
\* start key, hands over those that pass the filter, and names the last
\* record evaluated as LastEvaluatedKey unless the walk is over (0: none).
\* more: the store names a key although the page reached the last record.
scan(tbl, scan_kwargs, n, more) ==
  LET first == scan_kwargs.ExclusiveStartKey
      last == IF first + n < Len(tbl) THEN first + n ELSE Len(tbl)
      seen == SubSeq(tbl, first + 1, last)
  IN  [Items |-> SelectSeq(seen,
                   LAMBDA r : scan_kwargs.FilterExpression \subseteq DOMAIN r),
       LastEvaluatedKey |->
         IF last < Len(tbl) \/ (more /\ first < last) THEN last ELSE 0]

\* Line 62: pd.DataFrame(items), one column: a record without the attribute
\* has NaN there.
Column(its, c) ==
  [i \in 1..Len(its) |-> IF c \in DOMAIN its[i] THEN its[i][c] ELSE NaN]
HasColumn(its, c) == \E i \in 1..Len(its) : c \in DOMAIN its[i]

\* Decimal digits, a number as two digits, and a number in decimal.
Digit == <<"0", "1", "2", "3", "4", "5", "6", "7", "8", "9">>
TwoDigits(n) == Digit[(n \div 10) + 1] \o Digit[(n % 10) + 1]
RECURSIVE Decimal(_)
Decimal(n) ==
  IF n < 10 THEN Digit[n + 1] ELSE Decimal(n \div 10) \o Digit[(n % 10) + 1]

\* The strings the model reads as numbers: the whole numbers 0..100 in
\* decimal.
NumberStrings ==
  [s \in {Decimal(n) : n \in 0..100} |->
     Float(CHOOSE n \in 0..100 : Decimal(n) = s, 1)]

\* A string that reads as a number gives the number, any other string NaN.
ParseNumber(s) == IF s \in DOMAIN NumberStrings THEN NumberStrings[s] ELSE NaN

\* Line 63: pd.to_numeric(..., errors='coerce'), one value.
to_numeric(v) ==
  CASE v.t = "num" -> Float(v.n, 1)
    [] v.t = "str" -> ParseNumber(v.s)
    [] OTHER -> NaN

\* A timestamp in ISO format, to the minute.
IsoFormat(ts) ==
  "2025-04-" \o TwoDigits(ts.d) \o "T" \o TwoDigits(ts.m \div 60) \o ":"
    \o TwoDigits(ts.m % 60) \o ":00"

\* The strings the model reads as timestamps: 21 to 23 April 2025 in ISO
\* format, every five minutes.
IsoStrings ==
  LET known == {Ts(d, 5 * q) : d \in 21..23, q \in 0..287}
  IN  [s \in {IsoFormat(ts) : ts \in known} |->
         CHOOSE ts \in known : IsoFormat(ts) = s]

\* A string that reads as a timestamp gives the timestamp; any other string
\* makes pd.to_datetime raise.
ParseDatetime(s) ==
  IF s \in DOMAIN IsoStrings THEN IsoStrings[s] ELSE [t |-> "error"]

\* Line 64: pd.to_datetime, one value; missing values become NaT.
to_datetime(v) ==
  CASE v.t = "str" -> ParseDatetime(v.s)
    [] OTHER -> NaT

\* Lines 62-64 go through: the frame has the columns fare_amount and
\* pickup_datetime and every pickup_datetime reads as a timestamp.
Coercible(its) ==
  /\ HasColumn(its, "fare_amount")
  /\ HasColumn(its, "pickup_datetime")
  /\ \A i \in 1..Len(its) :
       to_datetime(Column(its, "pickup_datetime")[i]).t # "error"

\* The order of timestamps.
TsBefore(a, b) == a.d < b.d \/ (a.d = b.d /\ a.m < b.m)

\* A set of timestamps in ascending order.
RECURSIVE SortedKeys(_)
SortedKeys(S) ==
  IF S = {} THEN <<>>
  ELSE LET lo == CHOOSE a \in S : \A b \in S \ {a} : TsBefore(a, b)
       IN  <<lo>> \o SortedKeys(S \ {lo})

\* The groups walked from the latest timestamp to the earliest.
GroupKeys_Descending(its) ==
  LET keys == SortedKeys({to_datetime(Column(its, "pickup_datetime")[i]) :
                            i \in 1..Len(its)} \ {NaT})
  IN  [i \in 1..Len(keys) |-> keys[Len(keys) + 1 - i]]

\* Groups by calendar day instead of by timestamp.
GroupKeys_ByDay(its) ==
  LET all == {to_datetime(Column(its, "pickup_datetime")[i]) :
                i \in 1..Len(its)} \ {NaT}
  IN  SortedKeys({Ts(k.d, 0) : k \in all})

\* Line 67: the keys of groupby('pickup_datetime'), ascending (sort=True);
\* NaT is no key (dropna=True).
GroupKeys(its) ==
  SortedKeys({to_datetime(Column(its, "pickup_datetime")[i]) :
                i \in 1..Len(its)} \ {NaT})

\* A fare that does not read as a number counted as a fare of 0.
GroupFares_WithNaN(its, key) ==
  LET at == SelectSeq([i \in 1..Len(its) |-> i],
              LAMBDA i : to_datetime(Column(its, "pickup_datetime")[i]) = key)
  IN  [j \in 1..Len(at) |->
         LET f == to_numeric(Column(its, "fare_amount")[at[j]])
         IN  IF f = NaN THEN Float(0, 1) ELSE f]

\* Lines 67-72: the fares of a group: the numbers of fare_amount on the rows
\* whose timestamp is the key; the aggregations pass over NaN.
GroupFares(its, key) ==
  LET at == SelectSeq([i \in 1..Len(its) |-> i],
              LAMBDA i :
                /\ to_datetime(Column(its, "pickup_datetime")[i]) = key
                /\ to_numeric(Column(its, "fare_amount")[i]) # NaN)
  IN  [j \in 1..Len(at) |-> to_numeric(Column(its, "fare_amount")[at[j]])]

\* Arithmetic of the fares (whole numbers in this model).
RECURSIVE SeqSum(_)
SeqSum(fs) == IF fs = <<>> THEN 0 ELSE Head(fs).num + SeqSum(Tail(fs))
RECURSIVE Gcd(_, _)
Gcd(a, b) == IF b = 0 THEN a ELSE Gcd(b, a % b)
Quotient(n, d) == Float(n \div Gcd(n, d), d \div Gcd(n, d))

\* Lines 68-72: sum, count, mean, max, min of a group's fares.
AggSum(fs) == Float(SeqSum(fs), 1)
AggCount(fs) == Len(fs)
AggMean(fs) == IF fs = <<>> THEN NaN ELSE Quotient(SeqSum(fs), Len(fs))
AggMax(fs) ==
  IF fs = <<>> THEN NaN
  ELSE Float(CHOOSE x \in {fs[i].num : i \in 1..Len(fs)} :
               \A i \in 1..Len(fs) : fs[i].num <= x, 1)
AggMin(fs) ==
  IF fs = <<>> THEN NaN
  ELSE Float(CHOOSE x \in {fs[i].num : i \in 1..Len(fs)} :
               \A i \in 1..Len(fs) : fs[i].num >= x, 1)

\* Lines 67-73: the kpis frame, one row per group.
KpiRow(key, fs) ==
  [pickup_datetime |-> key, total_fare |-> AggSum(fs),
   count_trips |-> AggCount(fs), average_fare |-> AggMean(fs),
   max_fare |-> AggMax(fs), min_fare |-> AggMin(fs)]
Kpis(its) ==
  LET keys == GroupKeys(its)
  IN  [g \in 1..Len(keys) |-> KpiRow(keys[g], GroupFares(its, keys[g]))]

\* Line 77: strftime('%Y-%m-%d').
DateStr(ts) == "2025-04-" \o TwoDigits(ts.d)
\* Line 78.
Filename(row) == "kpis/date=" \o DateStr(row.pickup_datetime) \o "/kpi.json"

\* Line 83: row.to_json(): the timestamp as epoch time, NaN as null.
JEpoch(ts) == [j |-> "epoch_ms", day |-> ts.d, minute |-> ts.m]
JNumber(v) == IF v = NaN THEN JNull ELSE [j |-> "number", num |-> v.num, den |-> v.den]
to_json(row) ==
  [pickup_datetime |-> JEpoch(row.pickup_datetime),
   total_fare |-> JNumber(row.total_fare),
   count_trips |-> [j |-> "number", num |-> row.count_trips, den |-> 1],
   average_fare |-> JNumber(row.average_fare),
   max_fare |-> JNumber(row.max_fare),
   min_fare |-> JNumber(row.min_fare)]

\* An object some earlier run left in the bucket.
OldObject ==
  to_json(KpiRow(Ts(22, 510), <<Float(10, 1), Float(20, 1)>>))
EmptyBucket == [k \in {} |-> JNull]
Buckets ==
  {EmptyBucket,
   [k \in {"kpis/date=2025-04-21/kpi.json", "kpis/date=2025-04-22/kpi.json"}
      |-> OldObject]}

\* A write that adds the new count to that of the object already there.
put_object_Combine(bkt, key, body) ==
  [k \in DOMAIN bkt \cup {key} |->
     IF k = key
     THEN IF key \in DOMAIN bkt
          THEN [body EXCEPT !.count_trips.num = @ + bkt[key].count_trips.num]
          ELSE body
     ELSE bkt[k]]

\* Lines 80-85: s3.put_object; the object at the key is replaced.
put_object(bkt, key, body) ==
  [k \in DOMAIN bkt \cup {key} |-> IF k = key THEN body ELSE bkt[k]]

\* A handler without the test of line 58.
NothingFound_Never(its) == FALSE

\* Line 58: `if not items`.
NothingFound(its) == its = <<>>

AggregatorInit(stores, buckets) ==
  /\ store \in stores
  /\ bucket \in buckets
  /\ apc = "idle"
  /\ items = <<>>
  /\ lek = 0
  /\ startKey = 0
  /\ nScan = 0
  /\ nToken = 0
  /\ kpis = <<>>
  /\ ki = 1
  /\ puts = <<>>
  /\ bucket0 = bucket
  /\ prevOk = FALSE

\* Lines 48-50 and 21-24: the handler is invoked.
AInvoke ==
  /\ apc \in {"idle", "returned", "raised"}
  /\ apc' = "scan"
  /\ items' = <<>>
  /\ lek' = 0
  /\ startKey' = 0
  /\ nScan' = 0
  /\ nToken' = 0
  /\ kpis' = <<>>
  /\ ki' = 1
  /\ puts' = <<>>
  /\ bucket0' = bucket
  /\ prevOk' = (apc = "returned")
  /\ UNCHANGED <<store, bucket>>
  /\ UNCHANGED <<mvars, ivars>>

\* Lines 31-43: one turn of the loop of scan_all_items.
AScan ==
  /\ apc = "scan"
  /\ \E n \in 1..MaxPage, more \in BOOLEAN :
       LET scan_kwargs == ScanKwargs(lek)
           response == scan(store, scan_kwargs, n, more)
       IN  /\ startKey' = scan_kwargs.ExclusiveStartKey
           /\ nScan' = nScan + 1
           /\ nToken' = nToken + IF response.LastEvaluatedKey # 0 THEN 1 ELSE 0
           /\ items' = items \o response.Items
           /\ lek' = response.LastEvaluatedKey
           /\ apc' = IF response.LastEvaluatedKey = 0 THEN "scanned"
                     ELSE "scan"
  /\ UNCHANGED <<store, bucket, kpis, ki, puts, bucket0, prevOk>>
  /\ UNCHANGED <<mvars, ivars>>

\* Line 38 (or line 22) raises; lines 87-89 log and raise again.
AScanFail ==
  /\ apc = "scan"
  /\ apc' = "raised"
  /\ items' = <<>>
  /\ lek' = 0
  /\ startKey' = 0
  /\ nScan' = 0
  /\ nToken' = 0
  /\ UNCHANGED <<store, bucket, kpis, ki, puts, bucket0, prevOk>>
  /\ UNCHANGED <<mvars, ivars>>

\* Lines 45 and 55-60: scan_all_items returns; nothing matched; the handler
\* returns.
AReturnEmpty ==
  /\ apc = "scanned"
  /\ NothingFound(items)
  /\ apc' = "returned"
  /\ startKey' = 0
  /\ nScan' = 0
  /\ nToken' = 0
  /\ UNCHANGED <<store, bucket, items, lek, kpis, ki, puts, bucket0,
                 prevOk>>
  /\ UNCHANGED <<mvars, ivars>>

\* Lines 45, 55 and 62-73: scan_all_items returns; the frame, the coercions
\* and the groups.
AGroup ==
  /\ apc = "scanned"
  /\ ~NothingFound(items)
  /\ Coercible(items)
  /\ kpis' = Kpis(items)
  /\ ki' = 1
  /\ apc' = "write"
  /\ startKey' = 0
  /\ nScan' = 0
  /\ nToken' = 0
  /\ UNCHANGED <<store, bucket, items, lek, puts, bucket0, prevOk>>
  /\ UNCHANGED <<mvars, ivars>>

\* Lines 63-64 raise (no such column, a value that is no timestamp); lines
\* 87-89 log and raise again.
AGroupFail ==
  /\ apc = "scanned"
  /\ ~NothingFound(items)
  /\ ~Coercible(items)
  /\ apc' = "raised"
  /\ startKey' = 0
  /\ nScan' = 0
  /\ nToken' = 0
  /\ UNCHANGED <<store, bucket, items, lek, kpis, ki, puts, bucket0,
                 prevOk>>
  /\ UNCHANGED <<mvars, ivars>>

\* Lines 76-85: one row of kpis is written to the bucket.
APut ==
  /\ apc = "write"
  /\ ki <= Len(kpis)
  /\ bucket' = put_object(bucket, Filename(kpis[ki]), to_json(kpis[ki]))
  /\ puts' = Append(puts, <<Filename(kpis[ki]), to_json(kpis[ki])>>)
  /\ ki' = ki + 1
  /\ UNCHANGED <<store, apc, items, lek, startKey, nScan, nToken, kpis,
                 bucket0, prevOk>>
  /\ UNCHANGED <<mvars, ivars>>

\* Lines 80-85 raise; lines 87-89 log and raise again.
APutFail ==
  /\ apc = "write"
  /\ ki <= Len(kpis)
  /\ apc' = "raised"
  /\ UNCHANGED <<store, bucket, items, lek, startKey, nScan, nToken, kpis,
                 ki, puts, bucket0, prevOk>>
  /\ UNCHANGED <<mvars, ivars>>

\* Line 86: every row is written; the handler returns.
AReturn ==
  /\ apc = "write"
  /\ ki > Len(kpis)
  /\ apc' = "returned"
  /\ UNCHANGED <<store, bucket, items, lek, startKey, nScan, nToken, kpis,
                 ki, puts, bucket0, prevOk>>
  /\ UNCHANGED <<mvars, ivars>>

\* ---------------------------------------------------------- specifications
vars == <<mvars, ivars, avars>>
\* The Aggregator idle over an empty store and an empty bucket.
Init == MergerInit /\ IngestorInit /\ AggregatorInit({<<>>}, {EmptyBucket})
\* The Aggregator over any store and any bucket.
AggregatorStart == MergerInit /\ IngestorInit /\ AggregatorInit(Stores, Buckets)

\* One invocation at a time: the merges of a batch follow one another.
MergerNext ==
  \/ \E len \in 0..MaxBatch : MInvoke("m1", len)
  \/ \E r \in MergerInputs : MSkip("m1", r)
  \/ \E r \in MergerInputs : MGet("m1", r)
  \/ \E r \in MergerInputs : MGetFail("m1", r)
  \/ MPut("m1")
  \/ MPutFail("m1")
  \/ MReturn("m1")

\* Two invocations in flight: their get_item and put_item steps interleave.
RaceNext ==
  \E p \in Procs :
    \/ \E len \in 1..MaxRaceBatch : MInvoke(p, len)
    \/ \E r \in RaceInputs : MSkip(p, r)
    \/ \E r \in RaceInputs : MGet(p, r)
    \/ \E r \in RaceInputs : MGetFail(p, r)
    \/ MPut(p)
    \/ MPutFail(p)
    \/ MReturn(p)

\* One invocation of the Ingestor on a batch of notifications.
IngestorNext ==
  \/ IInvoke
  \/ IInvokeUnconfigured
  \/ IFetch
  \/ IFetchFail
  \/ IAppend
  \/ IAppendFail
  \/ IParseFail
  \/ IFileDone
  \/ IReturn

\* The record the Merger is handed for an entry of the stream.
Delivered(i) == KinesisRecord(log[i].Data)

\* The Merger's steps on the stream's records, delivered in order as one
\* batch to one invocation once the Ingestor has returned.
DInvoke == ipc = "returned" /\ MInvoke("m1", Len(log))
DSkip ==
  /\ ipc = "returned" /\ pc["m1"] = "loop" /\ idx["m1"] <= nrec["m1"]
  /\ MSkip("m1", Delivered(idx["m1"]))
DGet ==
  /\ ipc = "returned" /\ pc["m1"] = "loop" /\ idx["m1"] <= nrec["m1"]
  /\ MGet("m1", Delivered(idx["m1"]))
DGetFail ==
  /\ ipc = "returned" /\ pc["m1"] = "loop" /\ idx["m1"] <= nrec["m1"]
  /\ MGetFail("m1", Delivered(idx["m1"]))
DPut == ipc = "returned" /\ MPut("m1")
DPutFail == ipc = "returned" /\ MPutFail("m1")
DReturn == ipc = "returned" /\ MReturn("m1")

\* The pipeline: bucket -> stream -> store.
PipelineNext ==
  \/ IngestorNext
  \/ DInvoke
  \/ DSkip
  \/ DGet
  \/ DGetFail
  \/ DPut
  \/ DPutFail
  \/ DReturn

\* Invocations of the Aggregator, one after another, the store unchanged.
AggregatorNext ==
  \/ AInvoke
  \/ AScan
  \/ AScanFail
  \/ AReturnEmpty
  \/ AGroup
  \/ AGroupFail
  \/ APut
  \/ APutFail
  \/ AReturn

SpecMerger == Init /\ [][MergerNext]_vars
SpecRace == Init /\ [][RaceNext]_vars
SpecIngestor == Init /\ [][IngestorNext]_vars
SpecPipeline == Init /\ [][PipelineNext]_vars
SpecAggregator == AggregatorStart /\ [][AggregatorNext]_vars

\* ===================================================================
\* Claims about the Merger
\* ===================================================================

\* C1 (as stated): after any sequence of merges applied one after another to a
\* key, the stored record's fields are exactly the fields ever sent for that
\* key, each holding the value of the latest merge that sent it.
C1_FieldsAreExactlyThoseSent ==
  \A k \in DOMAIN table : k \in DOMAIN sent /\ table[k] = sent[k]

\* C1 (amended): after any sequence of merges applied one after another to a
\* key, the stored record's fields are the fields ever sent for that key
\* together with id; every field other than id holds the value of the latest
\* merge that sent it, and id holds the trip_id.
C1_LastWriteWinsPerField ==
  /\ DOMAIN table = DOMAIN sent
  /\ \A k \in DOMAIN table :
       /\ DOMAIN table[k] = DOMAIN sent[k] \cup {"id"}
       /\ table[k]["id"] = Str(k)
       /\ \A f \in DOMAIN sent[k] \ {"id"} : table[k][f] = sent[k][f]

\* C1 witness: three merges on t1 are done; a was sent twice and holds the
\* later value, b was sent by an earlier merge only, and a payload carried an
\* id of its own.
C1_Witness ==
  /\ pc["m1"] = "returned"
  /\ ver["t1"] = 3
  /\ outcome["m1"] = "merged"
  /\ "t1" \in DOMAIN table
  /\ "b" \in DOMAIN table["t1"]
  /\ "a" \in DOMAIN table["t1"] /\ table["t1"]["a"] = Str("y")
  /\ "id" \in DOMAIN sent["t1"] /\ sent["t1"]["id"] = Str("t2")

\* C5: a record whose payload has no trip_id causes no get_item and no
\* put_item and leaves the store as it was, the loop goes on with the next
\* record, and the handler returns only after every record of the batch was
\* taken up.
C5_NoTripIdSkipsRecord ==
  /\ [][\A p \in Procs :
          (attempts'[p] = attempts[p] + 1 /\ outcome'[p] = "no_trip_id")
            => /\ table' = table
               /\ nGet'[p] = nGet[p]
               /\ nPut'[p] = nPut[p]
               /\ pc'[p] = "loop"
               /\ idx'[p] = idx[p] + 1]_vars
  /\ [](\A p \in Procs : pc[p] = "returned" => attempts[p] = nrec[p])

\* C5 witness: a record without trip_id was met, and a later record of the
\* same batch was merged and written.
C5_Witness ==
  /\ pc["m1"] = "returned"
  /\ noTrip["m1"]
  /\ attempts["m1"] = 2
  /\ nGet["m1"] = 1
  /\ outcome["m1"] = "merged"
  /\ DOMAIN table # {}

\* C6: whatever records of a batch fail (decoding, parsing, trip_id, get_item,
\* put_item), the store holds what a run of the other records alone would
\* have written, every record is taken up exactly once, and the handler
\* returns {"status": "ok"}.
C6_PerRecordIsolation ==
  /\ table = ref
  /\ \A p \in Procs :
       /\ pc[p] = "loop" => idx[p] = attempts[p] + 1
       /\ pc[p] = "put" => idx[p] = attempts[p]
       /\ pc[p] = "returned" =>
            /\ result[p] = [status |-> "ok"]
            /\ attempts[p] = nrec[p]

\* C6 witness: a batch of three returned; two of its records failed, one of
\* them at put_item, and the third, after them, was merged and written.
C6_Witness ==
  /\ pc["m1"] = "returned"
  /\ nrec["m1"] = 3
  /\ nGet["m1"] = 2
  /\ nPut["m1"] = 2
  /\ ver["t1"] + ver["t2"] = 1
  /\ outcome["m1"] = "merged"

\* C2: when invocations race on a key, every put_item that succeeds leaves
\* under that key exactly the record its invocation read, overlaid with its
\* own payload (and nothing else changes the store), so the record after both
\* finish is the item of the last put_item; a field that only a payload
\* written since the writer's read carried is then missing.
C2_LastPutWins ==
  [][/\ table' # table =>
          \E p \in Procs : pc[p] = "put" /\ outcome'[p] = "merged"
     /\ \A p \in Procs :
          (pc[p] = "put" /\ nPut'[p] = nPut[p] + 1 /\ outcome'[p] = "merged")
            => LET k == cur[p].trip_id.s
                   E == cur[p].existing_item
                   P == cur[p].payload
               IN  /\ k \in DOMAIN table'
                   /\ DOMAIN table'[k] = DOMAIN E \cup DOMAIN P \cup {"id"}
                   /\ \A f \in DOMAIN table'[k] :
                        table'[k][f] = IF f = "id" THEN Str(k)
                                       ELSE IF f \in DOMAIN P THEN P[f]
                                       ELSE E[f]
                   /\ \A j \in DOMAIN table' \ {k} :
                        j \in DOMAIN table /\ table'[j] = table[j]
                   /\ \A Q \in missed[p] :
                        \A f \in DOMAIN Q \ (DOMAIN P \cup DOMAIN E \cup {"id"}) :
                          f \notin DOMAIN table'[k]]_vars

\* C2 witness: both invocations have returned, both wrote t1, and a field
\* sent for t1 is missing from the stored record.
C2_Witness ==
  /\ \A p \in Procs : pc[p] = "returned" /\ outcome[p] = "merged"
  /\ ver["t1"] = 2
  /\ \E f \in DOMAIN sent["t1"] : f \notin DOMAIN table["t1"]

\* C9: every stored record has a field id equal to the key it is stored under
\* and to the trip_id of the payload that wrote it, also when payloads carry
\* an id of their own, and neither the record nor its id ever goes away or
\* changes.
C9_IdIsTheKey ==
  /\ [](\A k \in DOMAIN table :
          /\ "id" \in DOMAIN table[k]
          /\ table[k]["id"] = Str(k)
          /\ "trip_id" \in DOMAIN table[k]
          /\ table[k]["trip_id"] = Str(k))
  /\ [][\A k \in DOMAIN table :
          k \in DOMAIN table' /\ table'[k]["id"] = table[k]["id"]]_vars

\* C9 witness: a payload for t1 that carried id = t2 was merged, and the
\* record is stored under t1 with id t1.
C9_Witness ==
  /\ "t1" \in DOMAIN table
  /\ "id" \in DOMAIN sent["t1"] /\ sent["t1"]["id"] = Str("t2")
  /\ table["t1"]["id"] = Str("t1")

\* C10 (as stated): a field present on a stored record is present in every
\* later state of that record.
C10_FieldSetNeverShrinks ==
  [][\A k \in DOMAIN table :
       k \in DOMAIN table' /\ DOMAIN table[k] \subseteq DOMAIN table'[k]]_vars

\* C10 (amended): a stored record never goes away, and its field set does not
\* shrink across any step other than a put_item by an invocation that read
\* the record before another put_item wrote that key.
C10_FieldSetShrinksOnlyOnStaleWrite ==
  [][\A k \in DOMAIN table :
       /\ k \in DOMAIN table'
       /\ \/ DOMAIN table[k] \subseteq DOMAIN table'[k]
          \/ \E p \in Procs :
               /\ pc[p] = "put" /\ pc'[p] = "loop"
               /\ cur[p].trip_id = Str(k)
               /\ cur[p].readVer[k] # ver[k]]_vars

\* C10 witness: two merges wrote t1 one after the other, the later one read
\* what the earlier one wrote, and the record holds the fields of both.
C10_Witness ==
  /\ ver["t1"] = 2
  /\ \A p \in Procs : pc[p] = "returned"
  /\ {"a", "b"} \subseteq DOMAIN table["t1"]
  /\ DOMAIN table["t1"] = DOMAIN sent["t1"] \cup {"id"}

\* ===================================================================
\* Claims about the Ingestor and the pipeline
\* ===================================================================

\* The rows of the files of a batch, file after file, as the reader yields
\* them.
RECURSIVE RowsOfBatch(_)
RowsOfBatch(ev) ==
  IF ev = <<>> THEN <<>>
  ELSE LET parsed == DictReader(Bucket[Head(ev)].lines)
       IN  [i \in 1..Len(parsed) |-> parsed[i].row] \o RowsOfBatch(Tail(ev))

\* The number of rows the reader yields before it raises, if it does.
RowsBeforeError(parsed) ==
  IF \E i \in 1..Len(parsed) : parsed[i].err
  THEN (CHOOSE i \in 1..Len(parsed) :
          parsed[i].err /\ \A j \in 1..(i - 1) : ~parsed[j].err) - 1
  ELSE Len(parsed)

\* C3: with the stream name configured and no fetch, parse or append
\* failing, the handler returns with exactly one stream record per data row
\* of every file of the batch, in order; each record's data is the
\* serialisation of its row and, for a row that has a trip_id, its partition
\* key is that trip_id.
C3_OneRecordPerRow ==
  (ipc = "returned" /\ iresult.status = "done"
     /\ failedAt = {} /\ fileErr = {})
    => /\ logRows = RowsOfBatch(event)
       /\ Len(log) = Len(logRows)
       /\ nAppend = Len(log)
       /\ \A i \in 1..Len(log) :
            /\ log[i].StreamName = stream_name.s
            /\ log[i].Data = json_dumps(logRows[i])
            /\ "trip_id" \in DOMAIN logRows[i].at
                 => log[i].PartitionKey = logRows[i].at["trip_id"]

\* C3 witness: a batch of two files returned without a failure, and the
\* stream holds the two rows of the first and the two rows of the second
\* (whose blank line is no row).
C3_Witness ==
  /\ ipc = "returned"
  /\ event = <<"trips.csv", "ragged.csv">>
  /\ failedAt = {} /\ fileErr = {}
  /\ Len(log) = 4
  /\ log[2].PartitionKey = Str("t2")

\* C7: when the append of a row fails, the failure is caught and every
\* later row of the same file is still handed to put_record.  The code does
\* not do this: the except clause of lines 92-93 is outside the loop over
\* the rows, so the rows after the failed one are never tried.
C7_LaterRowsStillAppended ==
  ipc = "returned" =>
    \A pos \in failedAt :
      \A r \in (pos[2] + 1)..RowsBeforeError(DictReader(Bucket[event[pos[1]]].lines)) :
        <<pos[1], r>> \in tried

\* C8: when the stream name is unset or empty, the handler returns
\* {"status": "error", "message": ...} and has fetched no object and appended
\* nothing, whatever the batch holds.
C8_UnconfiguredDoesNothing ==
  (ipc # "idle" /\ stream_name \in {PyNone, Str("")})
    => /\ ipc = "returned"
       /\ iresult = [status |-> "error",
                     message |-> "Stream name not configured"]
       /\ nFetch = 0
       /\ nAppend = 0
       /\ fetched = {}
       /\ log = <<>>

\* C8 witness: the handler returned the error for a batch of two
\* notifications with the stream name set to the empty string.
C8_Witness ==
  /\ ipc = "returned"
  /\ stream_name = Str("")
  /\ Len(event) = 2
  /\ iresult.status = "error"

\* The record a row is to leave in an empty store: its fields, and id set to
\* its trip_id.
RowWithId(row) ==
  [f \in DOMAIN row \cup {"id"} |->
     IF f = "id" THEN row["trip_id"] ELSE row[f]]

\* C4 (as stated): when the Merger writes the record of a row the Ingestor
\* appended and the store held no record for its trip_id, the stored record
\* is the row's fields and id = trip_id, and nothing else.
C4_RoundTrip ==
  [][(pc["m1"] = "put" /\ outcome'["m1"] = "merged"
        /\ cur["m1"].trip_id.s \notin DOMAIN table)
       => LET row == logRows[idx["m1"]].at
          IN  /\ "trip_id" \in DOMAIN row
              /\ row["trip_id"].s \in DOMAIN table'
              /\ table'[row["trip_id"].s] = RowWithId(row)]_vars

\* C4 (amended): the same, for the rows that have no more cells than the
\* header has columns, so that every field name is a column name.
C4_RoundTripOfRowsWithoutSurplus ==
  [][(pc["m1"] = "put" /\ outcome'["m1"] = "merged"
        /\ cur["m1"].trip_id.s \notin DOMAIN table
        /\ NoneKey \notin DOMAIN logRows[idx["m1"]].at)
       => LET row == logRows[idx["m1"]].at
          IN  /\ "trip_id" \in DOMAIN row
              /\ row["trip_id"].s \in DOMAIN table'
              /\ table'[row["trip_id"].s] = RowWithId(row)]_vars

\* C4 witness: the rows of trips.csv went through the stream into the empty
\* store; the record of t2 holds the row's fields and id.
C4_Witness ==
  /\ pc["m1"] = "returned"
  /\ event = <<"trips.csv">>
  /\ DOMAIN table = {"t1", "t2"}
  /\ table["t2"] = [trip_id |-> Str("t2"), a |-> Str("y"), id |-> Str("t2")]

\* ===================================================================
\* Claims about the Aggregator
\* ===================================================================

\* The timestamp of the i-th scanned record, NaT when it has none.
TimestampOf(i) == to_datetime(Column(items, "pickup_datetime")[i])
\* The fare of the i-th scanned record, NaN when it does not read as a number.
FareOf(i) == to_numeric(Column(items, "fare_amount")[i])
\* The scanned records with the timestamp key.
RecordsAt(key) == {i \in 1..Len(items) : TimestampOf(i) = key}
\* Those of them whose fare reads as a number.
FaresAt(key) == {i \in RecordsAt(key) : FareOf(i) # NaN}
\* The sum of the fares of a set of scanned records.
RECURSIVE FareSum(_)
FareSum(I) ==
  IF I = {} THEN 0
  ELSE LET i == CHOOSE j \in I : TRUE IN FareOf(i).num + FareSum(I \ {i})
\* The statistics of row g of kpis are those of the fares of the records I.
StatisticsOver(g, I) ==
  /\ kpis[g].count_trips = Cardinality(I)
  /\ kpis[g].total_fare = Float(FareSum(I), 1)
  /\ I # {} =>
       /\ kpis[g].average_fare.t = "float"
       /\ kpis[g].average_fare.num * kpis[g].count_trips
            = kpis[g].total_fare.num * kpis[g].average_fare.den
       /\ \E i \in I : kpis[g].max_fare = FareOf(i)
       /\ \A i \in I : FareOf(i).num <= kpis[g].max_fare.num
       /\ \E i \in I : kpis[g].min_fare = FareOf(i)
       /\ \A i \in I : FareOf(i).num >= kpis[g].min_fare.num
\* kpis has exactly one row per distinct timestamp of the scanned records.
OneGroupPerTimestamp ==
  /\ {kpis[g].pickup_datetime : g \in 1..Len(kpis)}
       = {TimestampOf(i) : i \in 1..Len(items)} \ {NaT}
  /\ \A g, h \in 1..Len(kpis) :
       kpis[g].pickup_datetime = kpis[h].pickup_datetime => g = h

\* C11 (as stated): one group per distinct pickup_datetime, and each group's
\* count_trips is the number of the records with that timestamp; a group of
\* one record has count_trips = 1 and sum = mean = max = min = its fare.
C11_StatisticsOverAllRecords ==
  apc = "write" =>
    /\ OneGroupPerTimestamp
    /\ \A g \in 1..Len(kpis) :
         /\ kpis[g].count_trips = Cardinality(RecordsAt(kpis[g].pickup_datetime))
         /\ Cardinality(RecordsAt(kpis[g].pickup_datetime)) = 1 =>
              /\ kpis[g].count_trips = 1
              /\ kpis[g].total_fare = kpis[g].average_fare
              /\ kpis[g].max_fare = kpis[g].total_fare
              /\ kpis[g].min_fare = kpis[g].total_fare

\* C11 (amended): one group per distinct timestamp of the scanned records
\* (a record without pickup_datetime is in no group), and each group's
\* statistics are those of the fares that read as numbers among exactly the
\* records with that timestamp: sum, number, maximum, minimum, and
\* average_fare * count_trips = total_fare; a group none of whose fares reads
\* as a number has count 0, sum 0 and no mean, maximum or minimum; a group of
\* one record whose fare is a number has count 1 and sum = mean = max = min =
\* that fare.
C11_StatisticsOverNumericFares ==
  apc = "write" =>
    /\ OneGroupPerTimestamp
    /\ \A g \in 1..Len(kpis) :
         LET I == FaresAt(kpis[g].pickup_datetime)
         IN  /\ StatisticsOver(g, I)
             /\ I = {} =>
                  /\ kpis[g].average_fare = NaN
                  /\ kpis[g].max_fare = NaN
                  /\ kpis[g].min_fare = NaN
             /\ (Cardinality(I) = 1
                   /\ Cardinality(RecordsAt(kpis[g].pickup_datetime)) = 1) =>
                  \E i \in I :
                    /\ kpis[g].count_trips = 1
                    /\ kpis[g].total_fare = FareOf(i)
                    /\ kpis[g].average_fare = FareOf(i)
                    /\ kpis[g].max_fare = FareOf(i)
                    /\ kpis[g].min_fare = FareOf(i)

\* C11 witness: two records of 08:30 on the 22nd with fares 10 and 25 were
\* grouped into one row: sum 35, count 2, mean 35/2, max 25, min 10.
C11_Witness ==
  /\ apc = "write"
  /\ Len(items) = 2
  /\ Len(kpis) = 1
  /\ kpis[1] = [pickup_datetime |-> Ts(22, 510), total_fare |-> Float(35, 1),
                count_trips |-> 2, average_fare |-> Float(35, 2),
                max_fare |-> Float(25, 1), min_fare |-> Float(10, 1)]

\* The days on which the scanned records' pickup timestamps fall.
DaysScanned ==
  {DateStr(TimestampOf(i)) : i \in {j \in 1..Len(items) : TimestampOf(j) # NaT}}

\* C12: an invocation that returns normally has written one object per
\* distinct day of the scanned records' pickup timestamps: as many bucket
\* writes as days, each to kpis/date=<day>/kpi.json of its day.
C12_OneWritePerDay ==
  apc = "returned" =>
    /\ Len(puts) = Cardinality(DaysScanned)
    /\ {puts[i][1] : i \in 1..Len(puts)}
         = {"kpis/date=" \o d \o "/kpi.json" : d \in DaysScanned}

\* The records of the store that have both fare_amount and
\* estimated_fare_amount, by position.
Complete == {j \in 1..Len(store) :
               {"fare_amount", "estimated_fare_amount"} \subseteq DOMAIN store[j]}
\* Those of them with the timestamp key whose fare reads as a number.
CompleteAt(key) ==
  {j \in Complete :
     /\ "pickup_datetime" \in DOMAIN store[j]
     /\ to_datetime(store[j].pickup_datetime) = key
     /\ to_numeric(store[j].fare_amount) # NaN}
RECURSIVE StoreFareSum(_)
StoreFareSum(J) ==
  IF J = {} THEN 0
  ELSE LET j == CHOOSE k \in J : TRUE
       IN  to_numeric(store[j].fare_amount).num + StoreFareSum(J \ {j})

\* C13: whatever the store holds, no record that lacks fare_amount or lacks
\* estimated_fare_amount is among the scanned records, every group is the
\* group of a record that has both, each group's count and sum are those of
\* the records that have both, and the objects written are these groups.
C13_IncompleteRecordsExcluded ==
  /\ \A i \in 1..Len(items) :
       {"fare_amount", "estimated_fare_amount"} \subseteq DOMAIN items[i]
  /\ \A g \in 1..Len(kpis) :
       /\ \E j \in Complete :
            /\ "pickup_datetime" \in DOMAIN store[j]
            /\ to_datetime(store[j].pickup_datetime) = kpis[g].pickup_datetime
       /\ kpis[g].count_trips = Cardinality(CompleteAt(kpis[g].pickup_datetime))
       /\ kpis[g].total_fare.num = StoreFareSum(CompleteAt(kpis[g].pickup_datetime))
  /\ \A i \in 1..Len(puts) :
       /\ i <= Len(kpis)
       /\ puts[i] = <<Filename(kpis[i]), to_json(kpis[i])>>

\* C13 witness: the store holds a record of 08:30 without
\* estimated_fare_amount and a record of 08:30 with both; the one object
\* written counts one trip of fare 10.
C13_Witness ==
  /\ apc = "returned"
  /\ store = <<Item(Str("2025-04-22T08:30:00"), Num(10), Absent),
               Item(Str("2025-04-22T08:30:00"), Num(10), Num(12))>>
  /\ Len(puts) = 1
  /\ puts[1][2].count_trips.num = 1
  /\ puts[1][2].total_fare.num = 10

\* C14: when scan_all_items comes back with no record, whatever the pages
\* were, the next step of the handler is its normal return, and the handler
\* has then written nothing: no put_object call, the bucket as it was when
\* the invocation began.
C14_NothingMatchedNothingWritten ==
  /\ []((apc = "returned" /\ items = <<>>)
          => (puts = <<>> /\ bucket = bucket0))
  /\ [][(apc = "scanned" /\ items = <<>>)
          => (apc' = "returned" /\ puts' = <<>> /\ bucket' = bucket0)]_vars

\* C14 witness: the store holds two records, neither with both attributes;
\* the handler returned and the bucket still holds its two old objects.
C14_Witness ==
  /\ apc = "returned"
  /\ Len(store) = 2
  /\ Complete = {}
  /\ items = <<>>
  /\ puts = <<>>
  /\ DOMAIN bucket = {"kpis/date=2025-04-21/kpi.json",
                      "kpis/date=2025-04-22/kpi.json"}
  /\ bucket = bucket0

\* The body of the last put_object call of the invocation for a key.
LastPut(key) ==
  puts[CHOOSE i \in 1..Len(puts) :
         /\ puts[i][1] = key
         /\ \A j \in (i + 1)..Len(puts) : puts[j][1] # key][2]

\* C15: whatever the store and the bucket held, an invocation that returns
\* normally right after one that returned normally, the store unchanged,
\* leaves the bucket as the earlier one left it; and after every normal
\* return each path written holds the summary just computed for it, nothing
\* of the object that was there before.
C15_RerunLeavesBucketAsItWas ==
  /\ [](apc = "returned" =>
          \A i \in 1..Len(puts) :
            /\ puts[i][1] \in DOMAIN bucket
            /\ bucket[puts[i][1]] = LastPut(puts[i][1]))
  /\ [][(apc # "returned" /\ apc' = "returned" /\ prevOk)
          => bucket' = bucket0]_vars

\* C15 witness: a second invocation in a row returned normally after
\* writing two objects over those the first one wrote; the bucket is as the
\* first one left it, the old object of the 21st included.
C15_Witness ==
  /\ apc = "returned"
  /\ prevOk
  /\ Len(puts) = 2
  /\ puts[1][1] # puts[2][1]
  /\ bucket = bucket0
  /\ "kpis/date=2025-04-21/kpi.json" \in DOMAIN bucket
  /\ bucket["kpis/date=2025-04-22/kpi.json"] # OldObject

\* The records with both attributes among the first n of the store, in the
\* store's order.
CompleteUpTo(n) ==
  SelectSeq(SubSeq(store, 1, n),
            LAMBDA r : {"fare_amount", "estimated_fare_amount"} \subseteq DOMAIN r)

\* C16: whatever pages the store cuts its records into (pages without items
\* but with a continuation key included), every turn of scan_all_items
\* issues one scan call whose ExclusiveStartKey is the LastEvaluatedKey of
\* the response before (none on the first call), the loop ends at the first
\* response without a key and only there, one call was issued per page, and
\* what is returned is the matching records of all the pages in the store's
\* order, none lost and none twice.
C16_ScanAllItems ==
  /\ [](apc = "scan" =>
          /\ nScan = nToken
          /\ nScan > 0 => lek # 0
          /\ items = CompleteUpTo(lek))
  /\ [](apc = "scanned" =>
          /\ lek = 0
          /\ nScan = nToken + 1
          /\ items = CompleteUpTo(Len(store)))
  /\ [][apc = "scan" /\ apc' \in {"scan", "scanned"} =>
          /\ nScan' = nScan + 1
          /\ startKey' = lek
          /\ (apc' = "scanned") <=> (lek' = 0)]_vars

\* C16 witness: three scan calls over a store of two records: the first page
\* holds only a record without fare_amount and so hands over no item but a
\* key, the second hands over one item and a key, the third is empty and
\* ends the walk.
C16_Witness ==
  /\ apc = "scanned"
  /\ Len(store) = 2
  /\ "fare_amount" \notin DOMAIN store[1]
  /\ nScan = 3
  /\ nToken = 2
  /\ startKey = 2
  /\ items = <<store[2]>>

\* Some record of the store with both attributes has a pickup_datetime that
\* does not read as a timestamp.
BadDatetimeInStore ==
  \E j \in Complete :
    /\ "pickup_datetime" \in DOMAIN store[j]
    /\ to_datetime(store[j].pickup_datetime).t = "error"

\* C17: the first put_object call comes after the whole scan, the coercions
\* and the grouping; when the scan raises, or a scanned record's
\* pickup_datetime does not read as a timestamp, the invocation raises with
\* no put_object call and the bucket as it was; a fare_amount that does not
\* read as a number does not make the invocation raise, and that record's
\* fare is in neither the sum nor the count, mean, maximum or minimum of its
\* group.
C17_WritesOnlyAfterGrouping ==
  /\ [](puts # <<>> =>
          /\ apc \in {"write", "returned", "raised"}
          /\ items = CompleteUpTo(Len(store))
          /\ OneGroupPerTimestamp)
  /\ [](BadDatetimeInStore =>
          /\ apc \notin {"write", "returned"}
          /\ puts = <<>>
          /\ bucket = bucket0)
  /\ [][(apc \in {"scan", "scanned"} /\ apc' = "raised")
          => (puts' = <<>> /\ bucket' = bucket0)]_vars
  /\ [][(apc = "scanned" /\ items # <<>> /\ ~BadDatetimeInStore
           /\ \E i \in 1..Len(items) : "pickup_datetime" \in DOMAIN items[i])
          => apc' = "write"]_vars
  /\ [](apc = "write" =>
          \A g \in 1..Len(kpis) :
            \A i \in RecordsAt(kpis[g].pickup_datetime) :
              FareOf(i) = NaN =>
                StatisticsOver(g, {j \in RecordsAt(kpis[g].pickup_datetime) \ {i} :
                                     FareOf(j) # NaN}))

\* C17 witness: of two records of 08:30 one has the fare 'abc'; the handler
\* returned and the object written counts one trip, of fare 10.
C17_Witness ==
  /\ apc = "returned"
  /\ store = <<Item(Str("2025-04-22T08:30:00"), Str("abc"), Num(12)),
               Item(Str("2025-04-22T08:30:00"), Num(10), Num(12))>>
  /\ Len(puts) = 1
  /\ puts[1][2].count_trips.num = 1
  /\ puts[1][2].total_fare.num = 10
  /\ puts[1][2].max_fare.num = 10

\* The latest of the timestamps of the scanned records that fall on the day
\* of the timestamp key.
LatestOfDay(key) ==
  CHOOSE a \in {TimestampOf(i) : i \in 1..Len(items)} \ {NaT} :
    /\ a.d = key.d
    /\ \A i \in 1..Len(items) :
         (TimestampOf(i) # NaT /\ TimestampOf(i).d = key.d)
           => ~TsBefore(a, TimestampOf(i))

\* C18: the groups are written in ascending order of their timestamps, each
\* put_object call replacing what the path held; after a normal return the
\* object at kpis/date=<day>/kpi.json is the summary of the one group with
\* the latest timestamp of that day: its count and sum are those of that
\* group's fares, not of all the trips of the day.
C18_LatestGroupOfTheDayRemains ==
  /\ [](\A i \in 1..Len(puts) :
          /\ i <= Len(kpis)
          /\ puts[i][1] = "kpis/date=" \o DateStr(kpis[i].pickup_datetime)
                            \o "/kpi.json"
          /\ \A j \in (i + 1)..Len(puts) :
               TsBefore(kpis[i].pickup_datetime, kpis[j].pickup_datetime))
  /\ [][(apc = "write" /\ puts' # puts)
          => bucket'[puts'[Len(puts')][1]] = puts'[Len(puts')][2]]_vars
  /\ [](apc = "returned" =>
          \A g \in 1..Len(kpis) :
            LET latest == LatestOfDay(kpis[g].pickup_datetime)
                object == bucket[Filename(kpis[g])]
            IN  /\ object.pickup_datetime
                     = [j |-> "epoch_ms", day |-> latest.d, minute |-> latest.m]
                /\ object.count_trips.num = Cardinality(FaresAt(latest))
                /\ object.total_fare.num = FareSum(FaresAt(latest)))

\* C18 witness: the store holds a trip of 09:00 and then one of 08:30 of the
\* same day; both groups were written to the day's path, and the object
\* there is the group of 09:00, one trip of fare 20.
C18_Witness ==
  /\ apc = "returned"
  /\ store = <<Item(Str("2025-04-22T09:00:00"), Str("20"), Num(22)),
               Item(Str("2025-04-22T08:30:00"), Str("25"), Num(22))>>
  /\ Len(puts) = 2
  /\ puts[1][1] = puts[2][1]
  /\ bucket["kpis/date=2025-04-22/kpi.json"].pickup_datetime.minute = 540
  /\ bucket["kpis/date=2025-04-22/kpi.json"].count_trips.num = 1
  /\ bucket["kpis/date=2025-04-22/kpi.json"].total_fare.num = 20

\* ===================================================================
\* Claims about the Ingestor's batch
\* ===================================================================

\* The notifications of the batch whose processing failed: the fetch, the
\* decoding or the parsing raised, or an append did.
FailedFiles == fileErr \cup {pos[1] : pos \in failedAt}

\* C19: with the stream name configured, however many notifications of the
\* batch fail (fetch, decoding, parsing or an append), the handler returns
\* {"status": "done"}, the object of every notification was fetched, and of
\* every notification that comes after a failed one and does not fail itself
\* every row was appended.
C19_LaterFilesStillProcessed ==
  (ipc = "returned" /\ StreamConfigured(stream_name)) =>
    /\ iresult = [status |-> "done"]
    /\ nFetch = Len(event)
    /\ \A f \in 1..Len(event) :
         (\E g \in FailedFiles : g < f) =>
           /\ f \in fetched
           /\ f \notin FailedFiles =>
                \A r \in 1..Len(DictReader(Bucket[event[f]].lines)) :
                  <<f, r>> \in tried \ failedAt

\* C19 witness: the first notification names an object that is not there,
\* the second trips.csv; the handler returned done and the two rows of
\* trips.csv are on the stream.
C19_Witness ==
  /\ ipc = "returned"
  /\ event = <<"gone.csv", "trips.csv">>
  /\ fileErr = {1}
  /\ tried = {<<2, 1>>, <<2, 2>>}
  /\ failedAt = {}
  /\ Len(log) = 2
  /\ iresult = [status |-> "done"]
====
